---- MODULE Spec2Model ----
(***************************************************************************)
(* LVDBE_Process: the per-block routine of the Dynamic Bass Enhancement    *)
(* module (media/libeffects/lvm/lib/Bass/src/LVDBE_Process.cpp).           *)
(*                                                                         *)
(* One call is modelled statement by statement: every thread has a program *)
(* counter that walks through StepOrder, and every statement of the        *)
(* routine is one action.  The collaborators the routine calls (mixers,    *)
(* biquads, downmix, AGC) and the control plane that flips the operating   *)
(* mode are not part of the file; they are modelled after the design       *)
(* document on a small integer sample domain.                              *)
(***************************************************************************)
EXTENDS Integers, Sequences, FiniteSets, TLC

VARIABLES Instance, Scratch, call

vars == <<Instance, Scratch, call>>

(***************************************************************************)
(* Bounds of the model.                                                    *)
(***************************************************************************)
\* Capabilities.MaxBlockSize of every instance of the model.
MaxBlockSize == 2
\* Params.NrChannels ranges over 1..MaxChannels.
MaxChannels == 2
\* Number of gain steps between silence (0) and unity gain.
GainOne == 2
\* Calls each thread makes when two instances run side by side.
MaxCalls == 2

Threads == {1, 2}

Min(a, b) == IF a < b THEN a ELSE b
Max(a, b) == IF a > b THEN a ELSE b
Abs(a) == IF a < 0 THEN 0 - a ELSE a

\* Amplitude at which the saturating mixers clip.
FullScale == 4 * GainOne

\* What the scratch memory holds between two calls stands for data no call may
\* rely on: a value that no computation on the input blocks produces.
Stale == 0 - 100 * FullScale

(***************************************************************************)
(* Buffers are functions over 0..len-1, like the C arrays.                 *)
(***************************************************************************)
Buf(len, v) == [k \in 0 .. (len - 1) |-> v]
BufLen(b) == Cardinality(DOMAIN b)
Slice(b, off, len) == [k \in 0 .. (len - 1) |-> b[off + k]]
\* b with vals written at offset off.
WriteAt(b, off, vals) ==
    [k \in DOMAIN b |->
        IF k >= off /\ k < off + BufLen(vals) THEN vals[k - off] ELSE b[k]]

\* (LVM_INT16)x: the value mod 2^16 read as two's complement.
ToInt16(x) ==
    LET m == x % 65536
    IN  IF m >= 32768 THEN m - 65536 ELSE m

(***************************************************************************)
(* Collaborators.  None of them is defined in LVDBE_Process.cpp; each is   *)
(* modelled after the design document (sections 4 and 6).                  *)
(***************************************************************************)

\* A sample scaled by a mixer gain of 0..GainOne.
ApplyGain(x, g) == (x * g) \div GainOne

\* Saturation of the mixers: clamp instead of wrapping.
Sat(x) == Max(0 - FullScale, Min(FullScale, x))

\* A gain after k frames of ramping from cur towards tgt, one step a frame.
Toward(cur, tgt, k) ==
    IF cur < tgt THEN Min(cur + k, tgt) ELSE Max(cur - k, tgt)

\* One smoothing state: a current and a target gain.
MixerStream(cur, tgt) == [Current |-> cur, Target |-> tgt]

LVC_Mixer_GetCurrent(stream) == stream.Current

LVC_Mixer_GetTarget(stream) == stream.Target

\* Single-input smoothed mixer: dst = src scaled by the gain, which ramps
\* towards the target frame by frame.  A count <= 0 does nothing.
LVC_MixSoft_Mc_D16C31_SAT(stream, src, NrFrames, NrChannels) ==
    IF NrFrames <= 0
    THEN [stream |-> stream, dst |-> Buf(0, 0)]
    ELSE [stream |-> MixerStream(Toward(stream.Current, stream.Target, NrFrames),
                                 stream.Target),
          dst |-> [k \in 0 .. (NrFrames * NrChannels - 1) |->
                      ApplyGain(src[k],
                                Toward(stream.Current, stream.Target,
                                       (k \div NrChannels) + 1))]]

\* Single-input smoothed mixer that adds into dst, saturating.
LVC_MixInSoft_Mc_D16C31_SAT(stream, src, dst, NrFrames, NrChannels) ==
    IF NrFrames <= 0
    THEN [stream |-> stream, dst |-> dst]
    ELSE [stream |-> MixerStream(Toward(stream.Current, stream.Target, NrFrames),
                                 stream.Target),
          dst |-> [k \in 0 .. (NrFrames * NrChannels - 1) |->
                      Sat(dst[k] +
                          ApplyGain(src[k],
                                    Toward(stream.Current, stream.Target,
                                           (k \div NrChannels) + 1)))]]

Settled(stream) == stream.Current = stream.Target

\* Two-input smoothed, saturating mixer.  mixer[0] weighs src1 and mixer[1]
\* weighs src2.  An input whose stream is settled at silence is left out, and
\* the other one passes through its own stream.
LVC_MixSoft_2Mc_D16C31_SAT(mixer, src1, src2, NrFrames, NrChannels) ==
    IF NrFrames <= 0
    THEN [mixer |-> mixer, dst |-> Buf(0, 0)]
    ELSE IF Settled(mixer[0]) /\ mixer[0].Current = 0
    THEN LET r == LVC_MixSoft_Mc_D16C31_SAT(mixer[1], src2, NrFrames, NrChannels)
         IN  [mixer |-> [mixer EXCEPT ![1] = r.stream], dst |-> r.dst]
    ELSE IF Settled(mixer[1]) /\ mixer[1].Current = 0
    THEN LET r == LVC_MixSoft_Mc_D16C31_SAT(mixer[0], src1, NrFrames, NrChannels)
         IN  [mixer |-> [mixer EXCEPT ![0] = r.stream], dst |-> r.dst]
    ELSE LET a == LVC_MixSoft_Mc_D16C31_SAT(mixer[0], src1, NrFrames, NrChannels)
             b == LVC_MixInSoft_Mc_D16C31_SAT(mixer[1], src2, a.dst,
                                              NrFrames, NrChannels)
         IN  [mixer |-> [i \in {0, 1} |-> IF i = 0 THEN a.stream ELSE b.stream],
              dst |-> b.dst]

\* Copy of n samples; a count <= 0 copies nothing.
Copy_Float(src, n) == [k \in 0 .. (n - 1) |-> src[k]]

\* Biquad filter with one delay per channel: y[f] = x[f] - x[f-1], the delay
\* holding the last input frame.  state is indexed by channel.
BiquadProcess(state, in, NrFrames, NrChannels) ==
    IF NrFrames <= 0
    THEN [state |-> state, out |-> Buf(0, 0)]
    ELSE [state |-> [c \in 0 .. (NrChannels - 1) |->
                        in[(NrFrames - 1) * NrChannels + c]],
          out |-> [k \in 0 .. (NrFrames * NrChannels - 1) |->
                      in[k] - (IF k < NrChannels
                               THEN state[k]
                               ELSE in[k - NrChannels])]]

RECURSIVE SumChannels(_, _, _)
SumChannels(src, base, n) ==
    IF n <= 0 THEN 0 ELSE src[base + n - 1] + SumChannels(src, base, n - 1)

\* Downmix: one mono sample per frame, the sum of the frame's channels.
FromMcToMono_Float(src, NrFrames, NrChannels) ==
    [f \in 0 .. (NrFrames - 1) |-> SumChannels(src, f * NrChannels, NrChannels)]

\* The largest magnitude of frame f of a multichannel buffer.
RECURSIVE FramePeak(_, _, _)
FramePeak(buf, base, n) ==
    IF n <= 0 THEN 0 ELSE Max(Abs(buf[base + n - 1]), FramePeak(buf, base, n - 1))

\* F applied to v, with v worked out once.
Bind(v, F(_)) == CHOOSE y \in {F(x) : x \in {v}} : TRUE

\* AGC and mix, frame by frame: the mono bass signal, scaled by the AGC gain,
\* is added to every channel; the gain backs off after a frame that exceeds
\* full scale and recovers otherwise.
RECURSIVE AGC_Run(_, _, _, _, _, _)
AGC_Run(agc, src, mono, f, NrFrames, NrChannels) ==
    IF f >= NrFrames
    THEN [agc |-> agc, dst |-> Buf(0, 0)]
    ELSE Bind([c \in 0 .. (NrChannels - 1) |->
                  src[f * NrChannels + c] + ApplyGain(mono[f], agc.AGC_Gain)],
              LAMBDA frame :
         Bind([AGC_Gain |->
                  IF FramePeak(frame, 0, NrChannels) > FullScale
                  THEN Max(agc.AGC_Gain - 1, 0)
                  ELSE Min(agc.AGC_Gain + 1, GainOne)],
              LAMBDA next :
         Bind(AGC_Run(next, src, mono, f + 1, NrFrames, NrChannels),
              LAMBDA rest :
                 [agc |-> rest.agc,
                  dst |-> [k \in 0 .. ((NrFrames - f) * NrChannels - 1) |->
                              IF k < NrChannels THEN frame[k]
                              ELSE rest.dst[k - NrChannels]]])))

AGC_MIX_VOL_Mc1Mon_D32_WRA(agc, src, mono, NrFrames, NrChannels) ==
    AGC_Run(agc, src, mono, 0, NrFrames, NrChannels)

(***************************************************************************)
(* LVDBE_Process.  A machine m is what one call works on: the instance     *)
(* (inst), the scratch memory the instance points to (scratch) and the     *)
(* call's own frame (c: program counter, arguments, caller's output block, *)
(* status).  c.steps and c.outWritten record what the call has done so     *)
(* far: the statements executed and the output indices written.            *)
(***************************************************************************)

\* Faulty variant of StepOrder: the bypass-volume path written before the enhanced path.
StepOrderVolFirst ==
    <<"guard", "vol", "copy", "hpf", "mono", "bpf", "agc", "mix", "ret">>

\* Faulty variant of StepOrder: the band-pass filter run before the downmix.
StepOrderBpfFirst ==
    <<"guard", "copy", "hpf", "bpf", "mono", "agc", "vol", "mix", "ret">>

\* The statements of the routine in program order; "ret" is the return.
StepOrder == <<"guard", "copy", "hpf", "mono", "bpf", "agc", "vol", "mix", "ret">>

StepIndex(label) == CHOOSE k \in DOMAIN StepOrder : StepOrder[k] = label

\* The statement that follows label.
Succ(label) == StepOrder[StepIndex(label) + 1]

\* const LVM_INT32 NrChannels = pInstance->Params.NrChannels;
NrChannelsOf(m) == m.inst.Params.NrChannels

\* const LVM_INT32 NrSamples = NrChannels * NrFrames;
NrSamples(m) == NrChannelsOf(m) * m.c.NrFrames

\* pScratch: the start of the instance's scratch memory.
pScratch(m) == 0

\* Faulty variant of pMono: the mono region placed NrFrames, not NrSamples, after pScratch.
pMonoAfterFrames(m) == pScratch(m) + m.c.NrFrames

\* LVM_FLOAT* const pMono = pScratch + NrSamples;
pMono(m) == pScratch(m) + NrSamples(m)

\* Faulty variant of pScratchVol: the bypass-volume region placed after the mono region.
pScratchVolAfterMono(m) == pMono(m) + m.c.NrFrames

\* LVM_FLOAT* const pScratchVol = pMono;
pScratchVol(m) == pMono(m)

\* Faulty variant of ScratchOf: one scratch memory for all instances.
ScratchShared(inst) == 1

\* The scratch memory of an instance: pInstance->pScratch.
ScratchOf(inst) == inst.pScratch

\* Faulty variant of TooManySamples: the limit taken in samples instead of frames.
TooManySamplesInSamples(m) ==
    m.c.NrFrames > m.inst.Capabilities.MaxBlockSize * NrChannelsOf(m)

\* Faulty variant of TooManySamples: an empty block rejected as well.
TooManySamplesOrNone(m) ==
    m.c.NrFrames = 0 \/ m.c.NrFrames > m.inst.Capabilities.MaxBlockSize

\* if (NrFrames > pInstance->Capabilities.MaxBlockSize)
TooManySamples(m) == m.c.NrFrames > m.inst.Capabilities.MaxBlockSize

\* Faulty variant of DBEPathActive: the transition of stream 0 not looked at.
DBEPathActiveModeOnly(inst) == inst.Params.OperatingMode = "LVDBE_ON"

\* DBE path is processed when DBE is ON or during On/Off transitions.
DBEPathActive(inst) ==
    \/ inst.Params.OperatingMode = "LVDBE_ON"
    \/ LVC_Mixer_GetCurrent(inst.pData.BypassMixer[0]) #
       LVC_Mixer_GetTarget(inst.pData.BypassMixer[0])

\* Faulty variant of BypassPathActive: the operating mode not looked at.
BypassPathActiveTransitionOnly(inst) ==
    LVC_Mixer_GetCurrent(inst.pData.BypassMixer[1]) #
    LVC_Mixer_GetTarget(inst.pData.BypassMixer[1])

\* Faulty variant of BypassPathActive: the transition of stream 1 not looked at.
BypassPathActiveModeOnly(inst) == inst.Params.OperatingMode = "LVDBE_OFF"

\* Bypass Volume path is processed when DBE is OFF or during On/Off transitions.
BypassPathActive(inst) ==
    \/ inst.Params.OperatingMode = "LVDBE_OFF"
    \/ LVC_Mixer_GetCurrent(inst.pData.BypassMixer[1]) #
       LVC_Mixer_GetTarget(inst.pData.BypassMixer[1])

Did(m, what, next) ==
    [m EXCEPT !.c.steps = Append(@, what), !.c.pc = next]

\* The count the input copy is given: (LVM_INT16)NrSamples.
CopyCount(m) == ToInt16(NrSamples(m))

\* The frame count the downmix and the two mixers are given: (LVM_INT16)NrFrames.
FramesArg(m) == ToInt16(m.c.NrFrames)

\* The channel count the downmix and the two mixers are given: (LVM_INT16)NrChannels.
ChannelsArg(m) == ToInt16(NrChannelsOf(m))

\* Statement what is given the record h of counts.
Hand(m, h) == [m EXCEPT !.c.handed = @ \cup {h}]

\* Copy_Float(..., (LVM_INT16)NrSamples)
HandCopy(m) == Hand(m, [what |-> "COPY", count |-> CopyCount(m)])

\* what(..., (LVM_INT16)NrFrames, (LVM_INT16)NrChannels)
HandFrames(m, what) ==
    Hand(m, [what |-> what, count |-> FramesArg(m), channels |-> ChannelsArg(m)])

\* memset(..., 0, sizeof(LVM_FLOAT) * NrSamples)
HandFill(m, what) == Hand(m, [what |-> what, count |-> NrSamples(m)])

\* Statement what reads (w = FALSE) or writes (w = TRUE) the len scratch
\* samples from off on.
Touch(m, what, w, off, len) ==
    [m EXCEPT !.c.access =
        @ \cup {[what |-> what, w |-> w, k |-> k] : k \in off .. (off + len - 1)}]

\* The block-size check.
DoGuard(m) ==
    IF TooManySamples(m)
    THEN [m EXCEPT !.c.status = "LVDBE_TOOMANYSAMPLES", !.c.pc = "ret"]
    ELSE [m EXCEPT !.c.pc = Succ("guard")]

\* Faulty variant of DoCopy: NrFrames samples copied instead of NrSamples.
DoCopyFramesOnly(m) ==
    Did([m EXCEPT !.scratch =
            WriteAt(@, pScratch(m), Copy_Float(m.c.pInData, ToInt16(m.c.NrFrames)))],
        "COPY", Succ("copy"))

\* Copy_Float(pInData, pScratch, (LVM_INT16)NrSamples);
DoCopy(m) ==
    LET dst == Copy_Float(m.c.pInData, CopyCount(m))
    IN  Did(Touch([HandCopy(m) EXCEPT !.scratch = WriteAt(@, pScratch(m), dst)],
                  "COPY", TRUE, pScratch(m), BufLen(dst)),
            "COPY", Succ("copy"))

\* Faulty variant of DoClearDBE: NrFrames samples cleared instead of NrSamples.
DoClearDBEFramesOnly(m) ==
    Did([m EXCEPT !.scratch = WriteAt(@, pScratch(m), Buf(m.c.NrFrames, 0))],
        "DBE_CLEAR", Succ("agc"))

\* memset(pScratch, 0, sizeof(*pScratch) * NrSamples);
DoClearDBE(m) ==
    Did(Touch([HandFill(m, "DBE_CLEAR") EXCEPT !.scratch = WriteAt(@, pScratch(m), Buf(NrSamples(m), 0))],
              "DBE_CLEAR", TRUE, pScratch(m), NrSamples(m)),
        "DBE_CLEAR", Succ("agc"))

\* Faulty variant of DoHPF: the high-pass filter run whether selected or not.
DoHPFAlways(m) ==
    LET r == BiquadProcess(m.inst.pHPFBiquad,
                           Slice(m.scratch, pScratch(m), NrSamples(m)),
                           m.c.NrFrames, NrChannelsOf(m))
        mr == Touch(m, "HPF", FALSE, pScratch(m), NrSamples(m))
    IN  Did(Touch([mr EXCEPT !.scratch = WriteAt(@, pScratch(m), r.out),
                             !.inst.pHPFBiquad = r.state],
                  "HPF", TRUE, pScratch(m), BufLen(r.out)),
            "HPF", Succ("hpf"))

\* pInstance->pHPFBiquad->process(pScratch, pScratch, NrFrames), if selected.
DoHPF(m) ==
    IF m.inst.Params.HPFSelect = "LVDBE_HPF_ON"
    THEN LET r == BiquadProcess(m.inst.pHPFBiquad,
                                Slice(m.scratch, pScratch(m), NrSamples(m)),
                                m.c.NrFrames, NrChannelsOf(m))
             mr == Touch(m, "HPF", FALSE, pScratch(m), NrSamples(m))
         IN  Did(Touch([mr EXCEPT !.scratch = WriteAt(@, pScratch(m), r.out),
                                  !.inst.pHPFBiquad = r.state],
                       "HPF", TRUE, pScratch(m), BufLen(r.out)),
                 "HPF", Succ("hpf"))
    ELSE [m EXCEPT !.c.pc = Succ("hpf")]

\* FromMcToMono_Float(pScratch, pMono, (LVM_INT16)NrFrames, (LVM_INT16)NrChannels);
DoMono(m) ==
    LET dst == FromMcToMono_Float(Slice(m.scratch, pScratch(m), NrSamples(m)),
                                  FramesArg(m), ChannelsArg(m))
        mr == Touch(HandFrames(m, "MONO"), "MONO", FALSE, pScratch(m), NrSamples(m))
    IN  Did(Touch([mr EXCEPT !.scratch = WriteAt(@, pMono(m), dst)],
                  "MONO", TRUE, pMono(m), BufLen(dst)),
            "MONO", Succ("mono"))

\* pInstance->pBPFBiquad->process(pMono, pMono, NrFrames);
DoBPF(m) ==
    LET r == BiquadProcess(m.inst.pBPFBiquad,
                           Slice(m.scratch, pMono(m), m.c.NrFrames),
                           m.c.NrFrames, 1)
        mr == Touch(m, "BPF", FALSE, pMono(m), m.c.NrFrames)
    IN  Did(Touch([mr EXCEPT !.scratch = WriteAt(@, pMono(m), r.out),
                             !.inst.pBPFBiquad = r.state],
                  "BPF", TRUE, pMono(m), BufLen(r.out)),
            "BPF", Succ("bpf"))

\* AGC_MIX_VOL_Mc1Mon_D32_WRA(&AGCInstance, pScratch, pMono, pScratch, ...);
DoAGC(m) ==
    LET r == AGC_MIX_VOL_Mc1Mon_D32_WRA(m.inst.pData.AGCInstance,
                                        Slice(m.scratch, pScratch(m), NrSamples(m)),
                                        Slice(m.scratch, pMono(m), m.c.NrFrames),
                                        m.c.NrFrames, NrChannelsOf(m))
        mr == Touch(Touch(m, "AGC", FALSE, pScratch(m), NrSamples(m)),
                    "AGC", FALSE, pMono(m), m.c.NrFrames)
    IN  Did(Touch([mr EXCEPT !.scratch = WriteAt(@, pScratch(m), r.dst),
                             !.inst.pData.AGCInstance = r.agc],
                  "AGC", TRUE, pScratch(m), BufLen(r.dst)),
            "AGC", Succ("agc"))

\* LVC_MixSoft_Mc_D16C31_SAT(&BypassVolume, pInData, pScratchVol, ...);
DoVol(m) ==
    LET r == LVC_MixSoft_Mc_D16C31_SAT(m.inst.pData.BypassVolume, m.c.pInData,
                                       FramesArg(m), ChannelsArg(m))
    IN  Did(Touch([HandFrames(m, "VOL") EXCEPT
                       !.scratch = WriteAt(@, pScratchVol(m), r.dst),
                       !.inst.pData.BypassVolume = r.stream],
                  "VOL", TRUE, pScratchVol(m), BufLen(r.dst)),
            "VOL", Succ("vol"))

\* Faulty variant of DoVolClear: the routine returns after clearing, without the final mix.
DoVolClearAndReturn(m) ==
    Did([m EXCEPT !.scratch = WriteAt(@, pScratchVol(m), Buf(NrSamples(m), 0)),
                  !.c.status = "LVDBE_SUCCESS"],
        "VOL_CLEAR", "ret")

\* Faulty variant of DoVolClear: the bypass volume forced to its target when
\* its path is skipped.
DoVolClearSettlesVolume(m) ==
    Did(Touch([m EXCEPT !.scratch = WriteAt(@, pScratchVol(m), Buf(NrSamples(m), 0)),
                        !.inst.pData.BypassVolume.Current = m.inst.pData.BypassVolume.Target],
              "VOL_CLEAR", TRUE, pScratchVol(m), NrSamples(m)),
        "VOL_CLEAR", Succ("vol"))

\* memset(pScratchVol, 0, sizeof(*pScratchVol) * NrSamples);
DoVolClear(m) ==
    Did(Touch([HandFill(m, "VOL_CLEAR") EXCEPT !.scratch = WriteAt(@, pScratchVol(m), Buf(NrSamples(m), 0))],
              "VOL_CLEAR", TRUE, pScratchVol(m), NrSamples(m)),
        "VOL_CLEAR", Succ("vol"))

\* Faulty variant of DoMix: the final mix run on a copy of BypassMixer, whose
\* advanced gains are thrown away.
DoMixOnCopy(m) ==
    LET r == LVC_MixSoft_2Mc_D16C31_SAT(m.inst.pData.BypassMixer,
                                        Slice(m.scratch, pScratch(m), NrSamples(m)),
                                        Slice(m.scratch, pScratchVol(m), NrSamples(m)),
                                        FramesArg(m), ChannelsArg(m))
        mr == Touch(Touch(m, "MIX", FALSE, pScratch(m), NrSamples(m)),
                    "MIX", FALSE, pScratchVol(m), NrSamples(m))
    IN  Did([mr EXCEPT !.c.pOutData = WriteAt(@, 0, r.dst),
                       !.c.outWritten = @ \cup DOMAIN r.dst,
                       !.c.status = "LVDBE_SUCCESS"],
            "MIX", Succ("mix"))

\* LVC_MixSoft_2Mc_D16C31_SAT(&BypassMixer, pScratch, pScratchVol, pOutData, ...);
\* return LVDBE_SUCCESS;
DoMix(m) ==
    LET r == LVC_MixSoft_2Mc_D16C31_SAT(m.inst.pData.BypassMixer,
                                        Slice(m.scratch, pScratch(m), NrSamples(m)),
                                        Slice(m.scratch, pScratchVol(m), NrSamples(m)),
                                        FramesArg(m), ChannelsArg(m))
        mr == Touch(Touch(HandFrames(m, "MIX"), "MIX", FALSE, pScratch(m),
                          NrSamples(m)),
                    "MIX", FALSE, pScratchVol(m), NrSamples(m))
    IN  Did([mr EXCEPT !.c.pOutData = WriteAt(@, 0, r.dst),
                       !.c.outWritten = @ \cup DOMAIN r.dst,
                       !.inst.pData.BypassMixer = r.mixer,
                       !.c.status = "LVDBE_SUCCESS"],
            "MIX", Succ("mix"))

\* The statement at the program counter.
StepOf(m) ==
    CASE m.c.pc = "guard" -> DoGuard(m)
      [] m.c.pc = "copy"  -> IF DBEPathActive(m.inst) THEN DoCopy(m) ELSE DoClearDBE(m)
      [] m.c.pc = "hpf"   -> DoHPF(m)
      [] m.c.pc = "mono"  -> DoMono(m)
      [] m.c.pc = "bpf"   -> DoBPF(m)
      [] m.c.pc = "agc"   -> DoAGC(m)
      [] m.c.pc = "vol"   -> IF BypassPathActive(m.inst) THEN DoVol(m) ELSE DoVolClear(m)
      [] m.c.pc = "mix"   -> DoMix(m)
      [] OTHER            -> m

\* A whole call run to its return, with nothing else happening in between.
RECURSIVE RunCall(_)
RunCall(m) == IF m.c.pc \in {"ret", "idle"} THEN m ELSE RunCall(StepOf(m))

(***************************************************************************)
(* State.  Instance[t] is the instance thread t processes, Scratch[b] the  *)
(* scratch memory number b, call[t] the frame of thread t's call.          *)
(***************************************************************************)

\* The machine thread t works on.
Mach(t) ==
    [inst |-> Instance[t], scratch |-> Scratch[ScratchOf(Instance[t])], c |-> call[t]]

\* The statement's result written back to the instance, its scratch and the frame.
Commit(t, m) ==
    /\ Instance' = [Instance EXCEPT ![t] = m.inst]
    /\ Scratch' = [Scratch EXCEPT ![ScratchOf(Instance[t])] = m.scratch]
    /\ call' = [call EXCEPT ![t] = m.c]

\* An instance as initialisation leaves it: effect off, bypass at unity gain,
\* filters at rest.
InitialInstance(t, ch) ==
    [Params |-> [OperatingMode |-> "LVDBE_OFF",
                 HPFSelect |-> "LVDBE_HPF_OFF",
                 NrChannels |-> ch],
     Capabilities |-> [MaxBlockSize |-> MaxBlockSize],
     pData |-> [BypassVolume |-> MixerStream(GainOne, GainOne),
                BypassMixer |-> [i \in {0, 1} |->
                                    IF i = 0 THEN MixerStream(0, 0)
                                    ELSE MixerStream(GainOne, GainOne)],
                AGCInstance |-> [AGC_Gain |-> GainOne]],
     pHPFBiquad |-> Buf(ch, 0),
     pBPFBiquad |-> Buf(1, 0),
     pScratch |-> t]

\* Scratch memory of 3 x channels x MaxBlockSize samples.
ScratchSize(inst) == 3 * inst.Params.NrChannels * inst.Capabilities.MaxBlockSize

\* A thread that is not inside a call.
IdleFrame(n) ==
    [pc |-> "idle", NrFrames |-> 0, pInData |-> Buf(0, 0), pOutData |-> Buf(0, 0),
     outWritten |-> {}, status |-> "NONE", steps |-> <<>>, access |-> {},
     handed |-> {},
     entry |-> [inst |-> 0, scratch |-> Buf(0, 0)], ncalls |-> n]

InitFor(T) ==
    /\ Instance \in {f \in [T -> {InitialInstance(t, ch) :
                                    t \in T, ch \in 1 .. MaxChannels}] :
                        \A t \in T : f[t].pScratch = t}
    /\ Scratch = [b \in T |-> Buf(ScratchSize(Instance[b]), Stale)]
    /\ call = [t \in T |-> IdleFrame(0)]

Init == InitFor({1})

\* A block whose samples all differ.
Ramp(len) == [k \in 0 .. (len - 1) |-> k + 1]

\* The input blocks the callers pass: silence and a ramp.
InputBlocks(len) == {Buf(len, 0), Ramp(len)}

\* The frame of a call that has just been entered.
EntryFrame(t, n, in, count) ==
    [pc |-> StepOrder[1], NrFrames |-> n, pInData |-> in,
     pOutData |-> Buf(BufLen(in), 0), outWritten |-> {}, status |-> "NONE",
     steps |-> <<>>, access |-> {},
     handed |-> {},
     entry |-> [inst |-> Instance[t], scratch |-> Scratch[ScratchOf(Instance[t])]],
     ncalls |-> count]

\* LVDBE_Process is called with a block of n frames.
Call(t) ==
    /\ call[t].pc = "idle"
    /\ \E n \in 0 .. (MaxBlockSize + 1) :
         \E in \in InputBlocks(Instance[t].Params.NrChannels * n) :
            call' = [call EXCEPT ![t] = EntryFrame(t, n, in, call[t].ncalls)]
    /\ UNCHANGED <<Instance, Scratch>>

\* A call of a thread that makes at most MaxCalls calls: a full block of a
\* ramp, or one frame too many.
CallBounded(t) ==
    /\ call[t].pc = "idle"
    /\ call[t].ncalls < MaxCalls
    /\ \E n \in {MaxBlockSize, MaxBlockSize + 1} :
         call' = [call EXCEPT ![t] =
                     EntryFrame(t, n, Ramp(Instance[t].Params.NrChannels * n),
                                call[t].ncalls + 1)]
    /\ UNCHANGED <<Instance, Scratch>>

Guard(t) == call[t].pc = "guard" /\ Commit(t, DoGuard(Mach(t)))

DBECopy(t) ==
    /\ call[t].pc = "copy"
    /\ DBEPathActive(Instance[t])
    /\ Commit(t, DoCopy(Mach(t)))

DBEClear(t) ==
    /\ call[t].pc = "copy"
    /\ ~DBEPathActive(Instance[t])
    /\ Commit(t, DoClearDBE(Mach(t)))

HPF(t) == call[t].pc = "hpf" /\ Commit(t, DoHPF(Mach(t)))

Mono(t) == call[t].pc = "mono" /\ Commit(t, DoMono(Mach(t)))

BPF(t) == call[t].pc = "bpf" /\ Commit(t, DoBPF(Mach(t)))

AGC(t) == call[t].pc = "agc" /\ Commit(t, DoAGC(Mach(t)))

Vol(t) ==
    /\ call[t].pc = "vol"
    /\ BypassPathActive(Instance[t])
    /\ Commit(t, DoVol(Mach(t)))

VolClear(t) ==
    /\ call[t].pc = "vol"
    /\ ~BypassPathActive(Instance[t])
    /\ Commit(t, DoVolClear(Mach(t)))

Mix(t) == call[t].pc = "mix" /\ Commit(t, DoMix(Mach(t)))

\* The call returns to its caller.  What it leaves in the scratch memory is
\* dead from here on.
Return(t) ==
    /\ call[t].pc = "ret"
    /\ call' = [call EXCEPT ![t] = IdleFrame(call[t].ncalls)]
    /\ Scratch' = [Scratch EXCEPT ![ScratchOf(Instance[t])] = Buf(BufLen(@), Stale)]
    /\ UNCHANGED Instance

(***************************************************************************)
(* The control plane, between calls: it flips the operating mode and sets  *)
(* the targets of the two BypassMixer streams, selects the high-pass       *)
(* filter and sets the target of the bypass volume.                        *)
(***************************************************************************)
ModeTargets(mode) ==
    IF mode = "LVDBE_ON"
    THEN [i \in {0, 1} |-> IF i = 0 THEN GainOne ELSE 0]
    ELSE [i \in {0, 1} |-> IF i = 0 THEN 0 ELSE GainOne]

SetOperatingMode(t) ==
    /\ call[t].pc = "idle"
    /\ LET mode == IF Instance[t].Params.OperatingMode = "LVDBE_ON"
                   THEN "LVDBE_OFF" ELSE "LVDBE_ON"
       IN  Instance' = [Instance EXCEPT
              ![t].Params.OperatingMode = mode,
              ![t].pData.BypassMixer =
                  [i \in {0, 1} |-> MixerStream(@[i].Current, ModeTargets(mode)[i])]]
    /\ UNCHANGED <<Scratch, call>>

SetHPFSelect(t) ==
    /\ call[t].pc = "idle"
    /\ Instance' = [Instance EXCEPT ![t].Params.HPFSelect =
                        IF @ = "LVDBE_HPF_ON" THEN "LVDBE_HPF_OFF" ELSE "LVDBE_HPF_ON"]
    /\ UNCHANGED <<Scratch, call>>

SetVolume(t) ==
    /\ call[t].pc = "idle"
    /\ \E g \in 1 .. GainOne :
         /\ g # Instance[t].pData.BypassVolume.Target
         /\ Instance' = [Instance EXCEPT ![t].pData.BypassVolume.Target = g]
    /\ UNCHANGED <<Scratch, call>>

Next ==
    \/ \E t \in DOMAIN call : Call(t)
    \/ \E t \in DOMAIN call : Guard(t)
    \/ \E t \in DOMAIN call : DBECopy(t)
    \/ \E t \in DOMAIN call : DBEClear(t)
    \/ \E t \in DOMAIN call : HPF(t)
    \/ \E t \in DOMAIN call : Mono(t)
    \/ \E t \in DOMAIN call : BPF(t)
    \/ \E t \in DOMAIN call : AGC(t)
    \/ \E t \in DOMAIN call : Vol(t)
    \/ \E t \in DOMAIN call : VolClear(t)
    \/ \E t \in DOMAIN call : Mix(t)
    \/ \E t \in DOMAIN call : Return(t)
    \/ \E t \in DOMAIN call : SetOperatingMode(t)
    \/ \E t \in DOMAIN call : SetHPFSelect(t)
    \/ \E t \in DOMAIN call : SetVolume(t)

Spec == Init /\ [][Next]_vars

(***************************************************************************)
(* Two instances, each processed by a thread of its own; the statements of *)
(* the two calls interleave freely.                                        *)
(***************************************************************************)
InitTwo == InitFor(Threads)

NextTwo ==
    \/ \E t \in DOMAIN call : CallBounded(t)
    \/ \E t \in DOMAIN call : Guard(t)
    \/ \E t \in DOMAIN call : DBECopy(t)
    \/ \E t \in DOMAIN call : DBEClear(t)
    \/ \E t \in DOMAIN call : HPF(t)
    \/ \E t \in DOMAIN call : Mono(t)
    \/ \E t \in DOMAIN call : BPF(t)
    \/ \E t \in DOMAIN call : AGC(t)
    \/ \E t \in DOMAIN call : Vol(t)
    \/ \E t \in DOMAIN call : VolClear(t)
    \/ \E t \in DOMAIN call : Mix(t)
    \/ \E t \in DOMAIN call : Return(t)
    \/ \E t \in DOMAIN call : SetOperatingMode(t)

SpecTwo == InitTwo /\ [][NextTwo]_vars

(***************************************************************************)
(* One instance whose caller keeps calling with accepted, non-empty blocks *)
(* (among empty and rejected ones) while the control plane flips the mode  *)
(* at will between calls.  A call, once entered, runs to its return: the   *)
(* routine is straight-line code around collaborators that terminate.      *)
(***************************************************************************)
\* LVDBE_Process is called with an accepted block of at least one frame.
CallNonEmpty(t) ==
    /\ call[t].pc = "idle"
    /\ \E n \in 1 .. Instance[t].Capabilities.MaxBlockSize :
         \E in \in InputBlocks(Instance[t].Params.NrChannels * n) :
            call' = [call EXCEPT ![t] = EntryFrame(t, n, in, call[t].ncalls)]
    /\ UNCHANGED <<Instance, Scratch>>

\* LVDBE_Process is called with an empty block or with one frame too many.
CallEmptyOrTooLong(t) ==
    /\ call[t].pc = "idle"
    /\ \E n \in {0, Instance[t].Capabilities.MaxBlockSize + 1} :
         \E in \in InputBlocks(Instance[t].Params.NrChannels * n) :
            call' = [call EXCEPT ![t] = EntryFrame(t, n, in, call[t].ncalls)]
    /\ UNCHANGED <<Instance, Scratch>>

\* Any statement of a call that has been entered.
Statement(t) ==
    \/ Guard(t) \/ DBECopy(t) \/ DBEClear(t) \/ HPF(t) \/ Mono(t) \/ BPF(t)
    \/ AGC(t) \/ Vol(t) \/ VolClear(t) \/ Mix(t) \/ Return(t)

NextSettle ==
    \/ \E t \in DOMAIN call : CallNonEmpty(t)
    \/ \E t \in DOMAIN call : CallEmptyOrTooLong(t)
    \/ \E t \in DOMAIN call : Guard(t)
    \/ \E t \in DOMAIN call : DBECopy(t)
    \/ \E t \in DOMAIN call : DBEClear(t)
    \/ \E t \in DOMAIN call : HPF(t)
    \/ \E t \in DOMAIN call : Mono(t)
    \/ \E t \in DOMAIN call : BPF(t)
    \/ \E t \in DOMAIN call : AGC(t)
    \/ \E t \in DOMAIN call : Vol(t)
    \/ \E t \in DOMAIN call : VolClear(t)
    \/ \E t \in DOMAIN call : Mix(t)
    \/ \E t \in DOMAIN call : Return(t)
    \/ \E t \in DOMAIN call : SetOperatingMode(t)

SpecSettle ==
    /\ Init
    /\ [][NextSettle]_vars
    /\ WF_vars(Statement(1))
    /\ SF_vars(CallNonEmpty(1))

(***************************************************************************)
(* The counts of a call over the whole range of its types: NrFrames is an  *)
(* LVM_UINT16, NrChannels and NrSamples are LVM_INT32, and the counts go   *)
(* to the collaborators through casts to LVM_INT16.  Only the counts are   *)
(* followed here, not the samples: the blocks and the scratch memory are   *)
(* left empty, and the statements after the block-size check are taken in  *)
(* one step that records the count each of them hands over.                *)
(***************************************************************************)
\* Channel counts from mono to 7.1.
WideChannels == {1, 2, 6, 8}

\* Maximum block sizes an instance may be configured with.
WideBlockSizes == {256, 4096, 16384, 32768, 65535}

\* Frame counts of a call, around the places where a cast can change them.
WideFrameCounts ==
    {0, 1, 256, 4095, 4096, 4097, 16383, 16384, 32767, 32768, 65535}

InitWide ==
    /\ Instance \in {[t \in {1} |->
                         [InitialInstance(t, ch) EXCEPT !.Capabilities.MaxBlockSize = mb]] :
                     ch \in WideChannels, mb \in WideBlockSizes}
    /\ Scratch = [b \in {1} |-> Buf(0, Stale)]
    /\ call = [t \in {1} |-> IdleFrame(0)]

\* LVDBE_Process is called with n frames.
CallWide(t) ==
    /\ call[t].pc = "idle"
    /\ \E n \in WideFrameCounts :
         call' = [call EXCEPT ![t] = EntryFrame(t, n, Buf(0, 0), call[t].ncalls)]
    /\ UNCHANGED <<Instance, Scratch>>

\* The statements of an accepted call, for the counts they hand over.
HandCounts(t) ==
    /\ call[t].pc = "copy"
    /\ LET m == Mach(t)
           dbe == IF DBEPathActive(m.inst)
                  THEN HandFrames(HandCopy(m), "MONO")
                  ELSE HandFill(m, "DBE_CLEAR")
           vol == IF BypassPathActive(m.inst)
                  THEN HandFrames(dbe, "VOL")
                  ELSE HandFill(dbe, "VOL_CLEAR")
           mix == HandFrames(vol, "MIX")
       IN  Commit(t, [mix EXCEPT !.c.pc = "ret", !.c.status = "LVDBE_SUCCESS"])

NextWide ==
    \/ \E t \in DOMAIN call : CallWide(t)
    \/ \E t \in DOMAIN call : Guard(t)
    \/ \E t \in DOMAIN call : HandCounts(t)
    \/ \E t \in DOMAIN call : Return(t)
    \/ \E t \in DOMAIN call : SetOperatingMode(t)

SpecWide == InitWide /\ [][NextWide]_vars

(***************************************************************************)
(* What the properties talk about.                                         *)
(***************************************************************************)
Range(seq) == {seq[k] : k \in DOMAIN seq}

InCall(t) == call[t].pc # "idle"

Returned(t) == call[t].pc = "ret"

\* The instance as it was when the call was entered.
EntryInst(t) == call[t].entry.inst

\* The call passes the block-size check.
Accepted(t) == call[t].NrFrames <= EntryInst(t).Capabilities.MaxBlockSize

\* channels x frames of the call.
CallSamples(t) == EntryInst(t).Params.NrChannels * call[t].NrFrames

\* The scratch memory of thread t's instance.
ScratchNow(t) == Scratch[ScratchOf(Instance[t])]

\* The enhanced-path region and the bypass-volume region of the scratch memory.
EnhancedRegion(t) == Slice(ScratchNow(t), 0, CallSamples(t))

VolRegion(t) == Slice(ScratchNow(t), CallSamples(t), CallSamples(t))

AllZero(b) == \A k \in DOMAIN b : b[k] = 0

StreamSettled(s) == s.Current = s.Target

\* Both BypassMixer streams were settled when the call was entered.
EntrySettled(t) ==
    /\ StreamSettled(EntryInst(t).pData.BypassMixer[0])
    /\ StreamSettled(EntryInst(t).pData.BypassMixer[1])

\* The bypass-volume-adjusted input: the BypassVolume mixer, as it was at
\* entry, applied to the raw input block.
VolumeAdjustedInput(t) ==
    LVC_MixSoft_Mc_D16C31_SAT(EntryInst(t).pData.BypassVolume, call[t].pInData,
                              call[t].NrFrames, EntryInst(t).Params.NrChannels).dst

\* The fully enhanced path computed on buffers of its own: copy, optional
\* high-pass, downmix, band-pass, AGC and mix, from the state at entry.
EnhancedSignal(t) ==
    LET inst == EntryInst(t)
        n    == call[t].NrFrames
        ch   == inst.Params.NrChannels
        x    == Copy_Float(call[t].pInData, ch * n)
        hp   == IF inst.Params.HPFSelect = "LVDBE_HPF_ON"
                THEN BiquadProcess(inst.pHPFBiquad, x, n, ch).out
                ELSE x
        mono == FromMcToMono_Float(hp, n, ch)
        bp   == BiquadProcess(inst.pBPFBiquad, mono, n, 1).out
    IN  AGC_MIX_VOL_Mc1Mon_D32_WRA(inst.pData.AGCInstance, hp, bp, n, ch).dst

(***************************************************************************)
(* C1: a call whose frame count exceeds MaxBlockSize returns               *)
(* LVDBE_TOOMANYSAMPLES and mutates nothing: the instance (mixer gains,    *)
(* filter and AGC states), the scratch memory and the caller's output      *)
(* block are what they were at entry.                                      *)
(***************************************************************************)
C1_RejectedCallMutatesNothing ==
    \A t \in DOMAIN call :
        (InCall(t) /\ ~Accepted(t)) =>
            /\ Instance[t] = EntryInst(t)
            /\ ScratchNow(t) = call[t].entry.scratch
            /\ call[t].outWritten = {}
            /\ call[t].pOutData = Buf(BufLen(call[t].pInData), 0)
            /\ call[t].steps = <<>>
            /\ Returned(t) => call[t].status = "LVDBE_TOOMANYSAMPLES"

C1_Witness ==
    \E t \in DOMAIN call :
        /\ Returned(t)
        /\ ~Accepted(t)
        /\ call[t].status = "LVDBE_TOOMANYSAMPLES"
        /\ ~StreamSettled(EntryInst(t).pData.BypassMixer[0])
        /\ ~AllZero(call[t].pInData)

(***************************************************************************)
(* C2: in an accepted call at most one of the two regions is zero-filled   *)
(* by an else branch; never both in the same call.                         *)
(***************************************************************************)
C2_NeverBothCleared ==
    \A t \in DOMAIN call :
        ~({"DBE_CLEAR", "VOL_CLEAR"} \subseteq Range(call[t].steps))

C2_Witness ==
    \E t \in DOMAIN call :
        /\ Returned(t)
        /\ Accepted(t)
        /\ "DBE_CLEAR" \in Range(call[t].steps)
        /\ "VOL" \in Range(call[t].steps)
        /\ call[t].NrFrames > 0

(***************************************************************************)
(* C3: an accepted call entered with mode OFF and both BypassMixer streams *)
(* settled hands an all-zero enhanced region to the final mixer, and its   *)
(* output block is the bypass-volume-adjusted input, sample for sample.    *)
(***************************************************************************)
C3_OffSettledOutputIsBypass ==
    \A t \in DOMAIN call :
        ( /\ Returned(t)
          /\ Accepted(t)
          /\ EntryInst(t).Params.OperatingMode = "LVDBE_OFF"
          /\ EntrySettled(t) ) =>
            /\ AllZero(EnhancedRegion(t))
            /\ call[t].pOutData = VolumeAdjustedInput(t)
            /\ call[t].outWritten = DOMAIN call[t].pInData

C3_Witness ==
    \E t \in DOMAIN call :
        /\ Returned(t)
        /\ Accepted(t)
        /\ EntryInst(t).Params.OperatingMode = "LVDBE_OFF"
        /\ EntrySettled(t)
        /\ call[t].NrFrames = MaxBlockSize
        /\ ~AllZero(call[t].pOutData)
        /\ ~StreamSettled(EntryInst(t).pData.BypassVolume)

(***************************************************************************)
(* C4: an accepted call entered with mode ON and both BypassMixer streams  *)
(* settled hands an all-zero bypass-volume region to the final mixer, and  *)
(* its output block is the fully enhanced path, sample for sample.         *)
(***************************************************************************)
C4_OnSettledOutputIsEnhanced ==
    \A t \in DOMAIN call :
        ( /\ Returned(t)
          /\ Accepted(t)
          /\ EntryInst(t).Params.OperatingMode = "LVDBE_ON"
          /\ EntrySettled(t) ) =>
            /\ AllZero(VolRegion(t))
            /\ call[t].pOutData = EnhancedSignal(t)
            /\ call[t].outWritten = DOMAIN call[t].pInData

C4_Witness ==
    \E t \in DOMAIN call :
        /\ Returned(t)
        /\ Accepted(t)
        /\ EntryInst(t).Params.OperatingMode = "LVDBE_ON"
        /\ EntrySettled(t)
        /\ EntryInst(t).Params.HPFSelect = "LVDBE_HPF_ON"
        /\ EntryInst(t).Params.NrChannels = MaxChannels
        /\ call[t].NrFrames = MaxBlockSize
        /\ ~AllZero(call[t].pOutData)

(***************************************************************************)
(* C5: what the final mixer reads from the bypass-volume region (the same  *)
(* memory as the mono region) is, in all channels x frames samples, the    *)
(* output of the BypassVolume mixer on the raw input of this call, or      *)
(* zero; never the mono signal of the enhanced path, with the high-pass    *)
(* filter selected or not.                                                 *)
(***************************************************************************)
C5_VolRegionIsVolumeOrZero ==
    \A t \in DOMAIN call :
        call[t].pc = "mix" =>
            VolRegion(t) = IF "VOL" \in Range(call[t].steps)
                           THEN VolumeAdjustedInput(t)
                           ELSE Buf(CallSamples(t), 0)

C5_Witness ==
    \E t \in DOMAIN call :
        /\ call[t].pc = "mix"
        /\ {"MONO", "BPF", "AGC", "VOL"} \subseteq Range(call[t].steps)
        /\ "HPF" \notin Range(call[t].steps)
        /\ call[t].NrFrames = MaxBlockSize
        /\ EntryInst(t).Params.NrChannels = MaxChannels
        /\ ~AllZero(VolRegion(t))

(***************************************************************************)
(* C6, as claimed: an accepted call whose input block is all zeros has an  *)
(* all-zero output block, whatever the calls before it.                    *)
(***************************************************************************)
C6_SilenceInSilenceOut ==
    \A t \in DOMAIN call :
        (Returned(t) /\ Accepted(t) /\ AllZero(call[t].pInData)) =>
            AllZero(call[t].pOutData)

\* The filters the call runs have nothing left in their delays.
FiltersAtRest(inst) ==
    /\ AllZero(inst.pBPFBiquad)
    /\ inst.Params.HPFSelect = "LVDBE_HPF_ON" => AllZero(inst.pHPFBiquad)

(***************************************************************************)
(* C6, amended: an accepted call whose input block is all zeros has an     *)
(* all-zero output block, for every mode and all gains, when the enhanced  *)
(* path is skipped or the filters it runs are at rest at entry.            *)
(***************************************************************************)
C6_SilenceInSilenceOutAtRest ==
    \A t \in DOMAIN call :
        ( /\ Returned(t)
          /\ Accepted(t)
          /\ AllZero(call[t].pInData)
          /\ \/ "DBE_CLEAR" \in Range(call[t].steps)
             \/ FiltersAtRest(EntryInst(t)) ) =>
            /\ AllZero(call[t].pOutData)
            /\ call[t].outWritten = DOMAIN call[t].pInData

C6_Witness ==
    \E t \in DOMAIN call :
        /\ Returned(t)
        /\ Accepted(t)
        /\ call[t].NrFrames > 0
        /\ AllZero(call[t].pInData)
        /\ FiltersAtRest(EntryInst(t))
        /\ "AGC" \in Range(call[t].steps)
        /\ "VOL" \in Range(call[t].steps)
        /\ ~EntrySettled(t)
        /\ AllZero(call[t].pOutData)

(***************************************************************************)
(* C7: a call with frame count 0 returns LVDBE_SUCCESS, writes no sample   *)
(* of the output block and leaves the instance (mixer gains, filter and    *)
(* AGC states) as it was at entry.                                         *)
(***************************************************************************)
C7_EmptyBlockIsNoOp ==
    \A t \in DOMAIN call :
        (Returned(t) /\ call[t].NrFrames = 0) =>
            /\ call[t].status = "LVDBE_SUCCESS"
            /\ call[t].outWritten = {}
            /\ Instance[t] = EntryInst(t)

C7_Witness ==
    \E t \in DOMAIN call :
        /\ Returned(t)
        /\ call[t].NrFrames = 0
        /\ call[t].status = "LVDBE_SUCCESS"
        /\ ~EntrySettled(t)
        /\ ~StreamSettled(EntryInst(t).pData.BypassVolume)
        /\ ~AllZero(EntryInst(t).pBPFBiquad)

\* How often statement what has been executed in the call so far.
Executions(t, what) == Cardinality({k \in DOMAIN call[t].steps : call[t].steps[k] = what})

(***************************************************************************)
(* C8: the block-size check is the only failure.  Every call with a frame  *)
(* count <= MaxBlockSize returns LVDBE_SUCCESS and has executed the final  *)
(* two-input mix exactly once, whichever branches the two paths took.      *)
(***************************************************************************)
C8_AcceptedCallSucceedsAndMixesOnce ==
    \A t \in DOMAIN call :
        /\ Executions(t, "MIX") <= 1
        /\ Returned(t) =>
              /\ call[t].status \in {"LVDBE_SUCCESS", "LVDBE_TOOMANYSAMPLES"}
              /\ call[t].status = "LVDBE_SUCCESS" <=> Accepted(t)
              /\ Accepted(t) => Executions(t, "MIX") = 1

C8_Witness ==
    \E t \in DOMAIN call :
        /\ Returned(t)
        /\ Accepted(t)
        /\ call[t].status = "LVDBE_SUCCESS"
        /\ {"COPY", "VOL_CLEAR", "MIX"} \subseteq Range(call[t].steps)
        /\ "HPF" \notin Range(call[t].steps)

\* The statements of the enhanced path.
EnhancedSteps == {"COPY", "HPF", "MONO", "BPF", "AGC"}

(***************************************************************************)
(* C10: in an accepted call the enhanced path is computed if and only if,  *)
(* at entry, the mode is ON or BypassMixer stream 0 has a current gain     *)
(* different from its target; otherwise the enhanced region is filled with *)
(* channels x frames zeros and none of the path's statements runs.         *)
(***************************************************************************)
C10_EnhancedPathIffOnOrTransition ==
    \A t \in DOMAIN call :
        (Returned(t) /\ Accepted(t)) =>
            IF \/ EntryInst(t).Params.OperatingMode = "LVDBE_ON"
               \/ EntryInst(t).pData.BypassMixer[0].Current #
                  EntryInst(t).pData.BypassMixer[0].Target
            THEN /\ {"COPY", "MONO", "BPF", "AGC"} \subseteq Range(call[t].steps)
                 /\ "HPF" \in Range(call[t].steps) <=>
                        EntryInst(t).Params.HPFSelect = "LVDBE_HPF_ON"
                 /\ "DBE_CLEAR" \notin Range(call[t].steps)
                 /\ EnhancedRegion(t) = EnhancedSignal(t)
            ELSE /\ Range(call[t].steps) \cap EnhancedSteps = {}
                 /\ "DBE_CLEAR" \in Range(call[t].steps)
                 /\ EnhancedRegion(t) = Buf(CallSamples(t), 0)

C10_Witness ==
    \E t \in DOMAIN call :
        /\ Returned(t)
        /\ Accepted(t)
        /\ call[t].NrFrames > 0
        /\ EntryInst(t).Params.OperatingMode = "LVDBE_OFF"
        /\ EntryInst(t).pData.BypassMixer[0].Current #
           EntryInst(t).pData.BypassMixer[0].Target
        /\ "AGC" \in Range(call[t].steps)

\* The machine of thread t's call as it was entered.
EntryMach(t) ==
    [inst |-> call[t].entry.inst,
     scratch |-> call[t].entry.scratch,
     c |-> [call[t] EXCEPT !.pc = StepOrder[1],
                           !.pOutData = Buf(BufLen(call[t].pInData), 0),
                           !.outWritten = {},
                           !.status = "NONE",
                           !.steps = <<>>]]

\* The machine run alone, statement after statement, up to program counter pc.
RECURSIVE RunUntil(_, _)
RunUntil(m, pc) ==
    IF m.c.pc = pc \/ m.c.pc = "ret" THEN m ELSE RunUntil(StepOf(m), pc)

(***************************************************************************)
(* C9: with two distinct instances processed by two threads, whatever the  *)
(* interleaving of the statements, each call is at every point where the   *)
(* same call run alone would be: same instance state (mixers, filters,     *)
(* AGC), same scratch contents, same output block and same status.  No     *)
(* statement of one call reads or writes what belongs to the other         *)
(* instance.                                                               *)
(***************************************************************************)
C9_InterleavingEqualsSequential ==
    \A t \in DOMAIN call :
        InCall(t) =>
            /\ Mach(t) = RunUntil(EntryMach(t), call[t].pc)
            /\ Returned(t) => Mach(t) = RunCall(EntryMach(t))

C9_Witness ==
    /\ call[1].pc = "mix"
    /\ call[2].pc = "ret"
    /\ call[2].status = "LVDBE_SUCCESS"
    /\ call[1].ncalls = MaxCalls
    /\ {"AGC", "VOL"} \subseteq Range(call[1].steps)
    /\ {"AGC", "VOL"} \subseteq Range(call[2].steps)
    /\ Instance[1] # Instance[2]

(***************************************************************************)
(* C11: in an accepted call the bypass-volume path is computed if and only *)
(* if, at entry, the mode is OFF or BypassMixer stream 1 has a current     *)
(* gain different from its target; otherwise the bypass-volume region is   *)
(* filled with channels x frames zeros and the BypassVolume mixer is not   *)
(* invoked.                                                                *)
(***************************************************************************)
C11_BypassPathIffOffOrTransition ==
    \A t \in DOMAIN call :
        (Returned(t) /\ Accepted(t)) =>
            IF \/ EntryInst(t).Params.OperatingMode = "LVDBE_OFF"
               \/ EntryInst(t).pData.BypassMixer[1].Current #
                  EntryInst(t).pData.BypassMixer[1].Target
            THEN /\ Executions(t, "VOL") = 1
                 /\ "VOL_CLEAR" \notin Range(call[t].steps)
            ELSE /\ "VOL" \notin Range(call[t].steps)
                 /\ Executions(t, "VOL_CLEAR") = 1
                 /\ VolRegion(t) = Buf(CallSamples(t), 0)
                 /\ Instance[t].pData.BypassVolume = EntryInst(t).pData.BypassVolume

C11_Witness ==
    \E t \in DOMAIN call :
        /\ Returned(t)
        /\ Accepted(t)
        /\ call[t].NrFrames > 0
        /\ EntryInst(t).Params.OperatingMode = "LVDBE_ON"
        /\ EntryInst(t).pData.BypassMixer[1].Current #
           EntryInst(t).pData.BypassMixer[1].Target
        /\ "VOL" \in Range(call[t].steps)
        /\ ~AllZero(VolRegion(t))

\* seq is a prefix of full.
IsPrefix(seq, full) ==
    /\ Len(seq) <= Len(full)
    /\ \A k \in DOMAIN seq : seq[k] = full[k]

\* The statement sequences of a complete accepted call.
CompleteRuns ==
    {head \o <<vol, "MIX">> :
        head \in {<<"COPY", "HPF", "MONO", "BPF", "AGC">>,
                  <<"COPY", "MONO", "BPF", "AGC">>,
                  <<"DBE_CLEAR">>},
        vol \in {"VOL", "VOL_CLEAR"}}

(***************************************************************************)
(* C12: within an accepted call the statements run in this order and no    *)
(* other: copy, high-pass (only when selected), downmix, band-pass, AGC    *)
(* and mix, then the write of the bypass-volume region (mix or zero-fill), *)
(* then the final mix.  The first write to the bypass-volume region comes  *)
(* after the AGC and mix statement, and the final mix after both regions   *)
(* are written.                                                            *)
(***************************************************************************)
C12_StatementsInPipelineOrder ==
    \A t \in DOMAIN call :
        /\ \E run \in CompleteRuns : IsPrefix(call[t].steps, run)
        /\ (Returned(t) /\ Accepted(t)) => call[t].steps \in CompleteRuns
        /\ "HPF" \in Range(call[t].steps) =>
               EntryInst(t).Params.HPFSelect = "LVDBE_HPF_ON"

C12_Witness ==
    \E t \in DOMAIN call :
        /\ Returned(t)
        /\ call[t].NrFrames > 0
        /\ call[t].steps = <<"COPY", "HPF", "MONO", "BPF", "AGC", "VOL", "MIX">>

\* The scratch indices the statements in whats have read (w = FALSE) or
\* written (w = TRUE) so far in thread t's call.
Touched(t, whats, w) ==
    {a.k : a \in {b \in call[t].access : b.what \in whats /\ b.w = w}}

(***************************************************************************)
(* C15: in every accepted call every scratch index read or written lies in *)
(* [0, 2 x channels x frames), inside the scratch capacity of              *)
(* 3 x channels x MaxBlockSize samples.  The enhanced region is            *)
(* [0, channels x frames), the mono region starts at channels x frames and *)
(* is frames long, the bypass-volume region is                             *)
(* [channels x frames, 2 x channels x frames).  The bypass-volume write    *)
(* never touches the enhanced region, and the output write covers exactly  *)
(* the channels x frames samples of the caller's block.                    *)
(***************************************************************************)
C15_ScratchAccessInRegions ==
    \A t \in DOMAIN call :
        (InCall(t) /\ Accepted(t)) =>
            LET ns == CallSamples(t)
                n == call[t].NrFrames
                Enhanced == 0 .. (ns - 1)
                MonoRegion == ns .. (ns + n - 1)
                Volume == ns .. (2 * ns - 1)
                Stmts == Range(StepOrder) \cup Range(call[t].steps)
            IN  /\ 2 * ns <= ScratchSize(EntryInst(t))
                /\ BufLen(ScratchNow(t)) = ScratchSize(EntryInst(t))
                /\ \A a \in call[t].access :
                      /\ a.k >= 0
                      /\ a.k < 2 * ns
                      /\ a.k \in DOMAIN ScratchNow(t)
                /\ Touched(t, {"COPY", "DBE_CLEAR", "HPF", "AGC"}, TRUE) \subseteq Enhanced
                /\ Touched(t, {"HPF", "MONO"}, FALSE) \subseteq Enhanced
                /\ Touched(t, {"MONO", "BPF"}, TRUE) \subseteq MonoRegion
                /\ Touched(t, {"BPF"}, FALSE) \subseteq MonoRegion
                /\ Touched(t, {"AGC"}, FALSE) \subseteq Enhanced \cup MonoRegion
                /\ Touched(t, {"VOL", "VOL_CLEAR"}, TRUE) \subseteq Volume
                /\ Touched(t, {"VOL", "VOL_CLEAR"}, TRUE) \cap Enhanced = {}
                /\ Touched(t, Stmts, FALSE) \cup Touched(t, Stmts, TRUE)
                       \subseteq Enhanced \cup Volume
                /\ "MIX" \notin Range(call[t].steps) => call[t].outWritten = {}
                /\ Returned(t) =>
                      /\ Touched(t, {"COPY", "DBE_CLEAR"}, TRUE) = Enhanced
                      /\ Touched(t, {"VOL", "VOL_CLEAR"}, TRUE) = Volume
                      /\ Touched(t, {"MIX"}, FALSE) = Enhanced \cup Volume
                      /\ call[t].outWritten = 0 .. (ns - 1)
                      /\ call[t].outWritten = DOMAIN call[t].pInData

C15_Witness ==
    \E t \in DOMAIN call :
        /\ Returned(t)
        /\ call[t].NrFrames = EntryInst(t).Capabilities.MaxBlockSize
        /\ EntryInst(t).Params.NrChannels = MaxChannels
        /\ {"COPY", "HPF", "MONO", "BPF", "AGC", "VOL", "MIX"} \subseteq Range(call[t].steps)
        /\ [what |-> "VOL", w |-> TRUE, k |-> 2 * CallSamples(t) - 1] \in call[t].access
        /\ [what |-> "BPF", w |-> TRUE, k |-> CallSamples(t) + call[t].NrFrames - 1]
               \in call[t].access
        /\ [what |-> "AGC", w |-> TRUE, k |-> 0] \in call[t].access

\* The target gains of the three mixer streams of an instance.
Targets(inst) ==
    <<LVC_Mixer_GetTarget(inst.pData.BypassVolume),
      LVC_Mixer_GetTarget(inst.pData.BypassMixer[0]),
      LVC_Mixer_GetTarget(inst.pData.BypassMixer[1])>>

(***************************************************************************)
(* C14: no call, accepted or rejected, changes the operating mode, the     *)
(* high-pass select, the channel count, MaxBlockSize or the target gain of *)
(* any mixer stream.  Only current gains change: BypassVolume's only when  *)
(* the bypass-volume path is computed, BypassMixer's in the final mix.     *)
(***************************************************************************)
C14_CallKeepsConfigurationAndTargets ==
    \A t \in DOMAIN call :
        InCall(t) =>
            /\ Instance[t].Params = EntryInst(t).Params
            /\ Instance[t].Capabilities = EntryInst(t).Capabilities
            /\ Instance[t].pScratch = EntryInst(t).pScratch
            /\ Targets(Instance[t]) = Targets(EntryInst(t))
            /\ Instance[t].pData.BypassVolume # EntryInst(t).pData.BypassVolume =>
                   "VOL" \in Range(call[t].steps)
            /\ Instance[t].pData.BypassMixer # EntryInst(t).pData.BypassMixer =>
                   "MIX" \in Range(call[t].steps)

C14_Witness ==
    \E t \in DOMAIN call :
        /\ Returned(t)
        /\ Accepted(t)
        /\ Instance[t].pData.BypassVolume.Current #
           EntryInst(t).pData.BypassVolume.Current
        /\ Instance[t].pData.BypassMixer[0].Current #
           EntryInst(t).pData.BypassMixer[0].Current
        /\ Instance[t].pData.BypassMixer[1].Current #
           EntryInst(t).pData.BypassMixer[1].Current

(***************************************************************************)
(* C17: a call leaves untouched the state of every stage it does not run.  *)
(* With the enhanced path skipped, the states of the high-pass filter, the *)
(* band-pass filter and the AGC are as at entry.  With the enhanced path   *)
(* run and the high-pass filter not selected, the high-pass state is as at *)
(* entry while the band-pass filter and the AGC still run.  With the       *)
(* bypass-volume path skipped, the BypassVolume mixer is as at entry.      *)
(***************************************************************************)
C17_SkippedStagesKeepTheirState ==
    \A t \in DOMAIN call :
        (InCall(t) /\ Accepted(t)) =>
            /\ ~DBEPathActive(EntryInst(t)) =>
                   /\ Instance[t].pHPFBiquad = EntryInst(t).pHPFBiquad
                   /\ Instance[t].pBPFBiquad = EntryInst(t).pBPFBiquad
                   /\ Instance[t].pData.AGCInstance = EntryInst(t).pData.AGCInstance
                   /\ Range(call[t].steps) \cap EnhancedSteps = {}
            /\ (DBEPathActive(EntryInst(t)) /\
                EntryInst(t).Params.HPFSelect # "LVDBE_HPF_ON") =>
                   /\ Instance[t].pHPFBiquad = EntryInst(t).pHPFBiquad
                   /\ "HPF" \notin Range(call[t].steps)
                   /\ Returned(t) => /\ Executions(t, "BPF") = 1
                                     /\ Executions(t, "AGC") = 1
            /\ ~BypassPathActive(EntryInst(t)) =>
                   /\ Instance[t].pData.BypassVolume = EntryInst(t).pData.BypassVolume
                   /\ "VOL" \notin Range(call[t].steps)

C17_Witness ==
    \E t \in DOMAIN call :
        /\ Returned(t)
        /\ Accepted(t)
        /\ DBEPathActive(EntryInst(t))
        /\ EntryInst(t).Params.HPFSelect # "LVDBE_HPF_ON"
        /\ Instance[t].pHPFBiquad = EntryInst(t).pHPFBiquad
        /\ Instance[t].pBPFBiquad # EntryInst(t).pBPFBiquad
        /\ Instance[t].pData.AGCInstance # EntryInst(t).pData.AGCInstance

\* The operating mode of the one instance of SpecSettle, and its two
\* BypassMixer streams.
Mode == Instance[1].Params.OperatingMode

Stream(i) == Instance[1].pData.BypassMixer[i]

\* What an accepted call that has returned did, against what it found at entry:
\* in mode OFF the enhanced path is computed exactly while stream 0 is in
\* transition, in mode ON the bypass-volume path exactly while stream 1 is.
TransitionPathsFollowStreams ==
    (Returned(1) /\ Accepted(1)) =>
        /\ EntryInst(1).Params.OperatingMode = "LVDBE_OFF" =>
              IF StreamSettled(EntryInst(1).pData.BypassMixer[0])
              THEN /\ Executions(1, "DBE_CLEAR") = 1
                   /\ Range(call[1].steps) \cap EnhancedSteps = {}
                   /\ AllZero(EnhancedRegion(1))
              ELSE /\ EnhancedSteps \ {"HPF"} \subseteq Range(call[1].steps)
                   /\ "DBE_CLEAR" \notin Range(call[1].steps)
        /\ EntryInst(1).Params.OperatingMode = "LVDBE_ON" =>
              IF StreamSettled(EntryInst(1).pData.BypassMixer[1])
              THEN /\ Executions(1, "VOL_CLEAR") = 1
                   /\ "VOL" \notin Range(call[1].steps)
                   /\ AllZero(VolRegion(1))
              ELSE /\ Executions(1, "VOL") = 1
                   /\ "VOL_CLEAR" \notin Range(call[1].steps)

\* A stream that is settled stays settled for as long as the mode is not
\* changed.
SettledStays ==
    \A i \in {0, 1} :
        (StreamSettled(Stream(i)) /\ Mode' = Mode) => StreamSettled(Stream(i))'

(***************************************************************************)
(* C13: once the mode is OFF and the control plane has set the targets for *)
(* OFF, every accepted call still computes the enhanced path as long as    *)
(* stream 0 is in transition; under repeated calls with a non-zero frame   *)
(* count stream 0 eventually settles; and from the first call that finds   *)
(* it settled, while the mode stays OFF, every call zero-fills the         *)
(* enhanced region.  The same holds for the bypass-volume path and stream  *)
(* 1 after a flip to ON.                                                   *)
(***************************************************************************)
C13_TransitionsRunOutAndPathsSwitchOff ==
    /\ []TransitionPathsFollowStreams
    /\ [][SettledStays]_vars
    /\ (Mode = "LVDBE_OFF" /\ ~StreamSettled(Stream(0)))
           ~> (StreamSettled(Stream(0)) \/ Mode = "LVDBE_ON")
    /\ (Mode = "LVDBE_ON" /\ ~StreamSettled(Stream(1)))
           ~> (StreamSettled(Stream(1)) \/ Mode = "LVDBE_OFF")

C13_Witness ==
    /\ Returned(1)
    /\ EntryInst(1).Params.OperatingMode = "LVDBE_OFF"
    /\ EntryInst(1).pData.BypassMixer[0].Target = 0
    /\ EntryInst(1).pData.BypassMixer[0].Current \notin {0, GainOne}
    /\ "AGC" \in Range(call[1].steps)
    /\ StreamSettled(Stream(0))
    /\ Mode = "LVDBE_OFF"

(***************************************************************************)
(* C16: for every channel count and every accepted frame count the counts  *)
(* handed to the collaborators are the true counts: the input copy is      *)
(* given exactly channels x frames, the downmix and the two mixers exactly *)
(* the frame count.  The casts to a signed 16-bit integer lose nothing and *)
(* never give a negative count or one smaller than that of the zero-fill   *)
(* branches, which is channels x frames.                                   *)
(***************************************************************************)
C16_CountsHandedAreTrueCounts ==
    \A t \in DOMAIN call :
        (InCall(t) /\ Accepted(t)) =>
            \A h \in call[t].handed :
                /\ h.count >= 0
                /\ h.what \in {"COPY", "DBE_CLEAR", "VOL_CLEAR"} =>
                       h.count = CallSamples(t)
                /\ h.what \in {"MONO", "VOL", "MIX"} =>
                       /\ h.count = call[t].NrFrames
                       /\ h.channels = EntryInst(t).Params.NrChannels

\* An accepted call of 8 channels x 4096 frames whose input copy is given a
\* negative count.
C16_Witness ==
    \E t \in DOMAIN call :
        /\ Returned(t)
        /\ Accepted(t)
        /\ EntryInst(t).Params.NrChannels = 8
        /\ call[t].NrFrames = 4096
        /\ [what |-> "COPY", count |-> 0 - 32768] \in call[t].handed

====
